---- MODULE Spec2Model ----
(***************************************************************************)
(* ngesh: random phylogenetic tree generator.                              *)
(*                                                                         *)
(* State machine of src/src/ngesh/random_tree.py (gen_tree, _gen_tree,     *)
(* _gen_tree_fast, label_tree) and src/src/ngesh/common.py (set_seeds,     *)
(* random_labels, random_species): Spec.  The functions that take a tree   *)
(* of the caller (label_tree, add_characters, simulate_bad_sampling):      *)
(* LibSpec.  src/src/ngesh/newick.py (sorted_newick): NewickSpec.          *)
(*                                                                         *)
(* Time is counted in integer ticks (exact arithmetic).  The two pseudo    *)
(* random generators (Python's `random` and numpy's `np.random`) are       *)
(* deterministic streams: the value of a draw is a function of the seed    *)
(* the stream was last seeded with and of the number of draws made since.  *)
(* Which function it is, is fixed per behaviour by `world`.                *)
(***************************************************************************)
EXTENDS Integers, Sequences, FiniteSets, TLC

\* ---------------------------------------------------------------- bounds
\* Number of distinct pseudo random generator functions explored.
NumWorlds == 3
\* Resolution of one raw draw: a draw is a value in 0 .. RawRange-1,
\* standing for the float u / RawRange of [0, 1).
RawRange == 8
\* Largest number of nodes a tree may hold in the model.
MaxNodes == 9
\* Stands for __MAX_ATTEMPTS (3000 in the source, scaled down).
MAX_ATTEMPTS == 4
\* Ticks per unit of -ln(1 - u) in the model of random.expovariate.
TimeScale == 12

\* ---------------------------------------------------------------- inputs
None == -1
\* Seeds the caller passes: None or an integer.  The seeds gen_tree draws
\* are the raw draws 0 .. RawRange-1 (floats of [0, 1)), which seed other
\* streams than any integer does.
UserSeed == 100

\* ------------------------------------------------------------- variables
VARIABLES
    world,        \* which pseudo random function the generators compute
    pc,           \* position of the caller / of gen_tree
    args,         \* arguments of the current gen_tree call
    seed,         \* gen_tree's local `seed`
    cur_attempt,  \* gen_tree's local `cur_attempt`
    rng,          \* state of the two global generator streams
    tree,         \* the attempt's `tree` (<<>> is Python's None)
    leaves,       \* _gen_tree_fast's `leaves` list
    total_time,   \* the attempt's `total_time`
    stop,         \* which exit the attempt's loop took
    outcome,      \* how the gen_tree call ended
    calls,        \* number of gen_tree calls finished
    first,        \* the first finished call: arguments and result
    obs           \* observations of the current call (history)

vars == <<world, pc, args, seed, cur_attempt, rng, tree, leaves, total_time,
          stop, outcome, calls, first, obs>>

\* --------------------------------------------------------------- streams
Mix(x) == LET y == x % 1009 IN (y * y * 37 + y * 101 + 17) % 1009

\* The draw number i of stream st (0 Python, 1 numpy) after seeding with s.
\* World 0 is the generator of period one (every draw of a stream gives the
\* same value); the other worlds hash the seed and the position.
Raw(st, s, i) ==
    Mix(Mix(world * 786 + st * 67 + s * 17 + 5)
        + (IF world = 0 THEN 0 ELSE i * 29)) % RawRange

Stream(s) == [seed |-> s, idx |-> 0]

\* common.set_seeds: both streams are reseeded; with seed None each stream
\* is seeded from the operating system's entropy (e1, e2).
SetSeedsPyOnly(s, e1, e2, r) ==
    IF s = None THEN [py |-> Stream(e1), np |-> Stream(e2)]
    ELSE [py |-> Stream(s), np |-> r.np]

\* Only the numpy stream reseeded.
SetSeedsNpOnly(s, e1, e2, r) ==
    IF s = None THEN [py |-> Stream(e1), np |-> Stream(e2)]
    ELSE [py |-> r.py, np |-> Stream(s)]

SetSeeds(s, e1, e2, r) ==
    IF s = None THEN [py |-> Stream(e1), np |-> Stream(e2)]
    ELSE [py |-> Stream(s), np |-> Stream(s)]

PyPeek(r, k) == Raw(0, r.py.seed, r.py.idx + k)
NpPeek(r, k) == Raw(1, r.np.seed, r.np.idx + k)
PyAdvance(r, k) == [r EXCEPT !.py.idx = @ + k]
NpAdvance(r, k) == [r EXCEPT !.np.idx = @ + k]

\* random.expovariate(lambd) from the raw draw u: -ln(1 - u) / lambd.
Expovariate(u, lambd) == (TimeScale * u) \div ((RawRange - u) * lambd)

\* np.random.poisson(lam) from the raw draw u (inverse distribution
\* function of Poisson(1), cut at 2); lam = 0 returns 0 without drawing.
Poisson(u, lam) ==
    IF lam = 0 THEN 0
    ELSE IF 8 * u < 3 * RawRange THEN 0
    ELSE IF 8 * u < 6 * RawRange THEN 1
    ELSE 2

PoissonDraws(lam) == IF lam = 0 THEN 0 ELSE 1

\* Draws made by np.random.choice / np.random.random_integers over n
\* values: a range of a single value is returned without drawing.
SelectDraws(n) == IF n = 1 THEN 0 ELSE 1

\* ------------------------------------------------------------------ tree
\* A tree is a sequence of nodes; node 1 is the root; `up` 0 is no parent.
NewNode(up, dist) ==
    [up |-> up, children |-> <<>>, dist |-> dist, extinct |-> FALSE,
     name |-> <<>>, present |-> TRUE]

RECURSIVE LeavesBelow(_, _)
RECURSIVE LeavesOfAll(_, _)
LeavesBelow(t, n) ==
    IF t[n].children = <<>> THEN <<n>> ELSE LeavesOfAll(t, t[n].children)
LeavesOfAll(t, cs) ==
    IF cs = <<>> THEN <<>>
    ELSE LeavesBelow(t, Head(cs)) \o LeavesOfAll(t, Tail(cs))

\* ete3 TreeNode.get_leaves(): the leaves in preorder.
GetLeaves(t) == LeavesBelow(t, 1)

\* __extant: the leaves whose `extinct` is False.
Extant(t) == SelectSeq(GetLeaves(t), LAMBDA n : ~t[n].extinct)

Range(s) == {s[i] : i \in 1 .. Len(s)}

\* node.add_child(child) for k fresh children with branch length d.
AddChildren(t, n, k, d) ==
    LET ids == [i \in 1 .. k |-> Len(t) + i]
        t2 == t \o [i \in 1 .. k |-> NewNode(n, d)]
    IN  [t2 EXCEPT ![n].children = @ \o ids]

Min(a, b) == IF a <= b THEN a ELSE b

\* np.random.choice(a) for a sequence a, from the raw draw u.
Choice(a, u) == a[(u % Len(a)) + 1]

\* TRUE, once x is evaluated: keeps the evaluation of a loop's steps in the
\* order of the loop.
Done(x) == x = x

\* ------------------------------------------------- Standard strategy
\* The birth test `np.random.random() <= birth`, birth being normalised to
\* birth / (birth + death) and the draw u standing for u / RawRange.
IsBirthUnnormalised(u, a) == u * (a.birth + a.death + 1) <= a.birth * RawRange

IsBirth(u, a) == u * (a.birth + a.death) <= a.birth * RawRange

\* `min_leaves and len(leaf_nodes) >= min_leaves`
MinLeavesOffByOne(a, n) == a.min_leaves # 0 /\ n + 1 >= a.min_leaves

MinLeavesReached(a, n) == a.min_leaves # 0 /\ n >= a.min_leaves

\* `max_time and total_time > max_time`
Overshoot(a, tt) == a.max_time # 0 /\ tt > a.max_time

\* The extension applied to every leaf, extinct ones included.
ExtendEveryLeaf(t, event_time, max_time) ==
    [n \in 1 .. Len(t) |->
        IF n \in Range(GetLeaves(t))
        THEN [t[n] EXCEPT !.dist =
                 IF max_time # 0 THEN Min(@ + event_time, max_time)
                 ELSE @ + event_time]
        ELSE t[n]]

\* Extend the branch length of every extant leaf by event_time, capped at
\* max_time when one is given (`min(new, max_time or new)`).
ExtendExtant(t, event_time, max_time) ==
    [n \in 1 .. Len(t) |->
        IF n \in Range(Extant(t))
        THEN [t[n] EXCEPT !.dist =
                 IF max_time # 0 THEN Min(@ + event_time, max_time)
                 ELSE @ + event_time]
        ELSE t[n]]

\* A birth with one child less.
ApplyEventOneLess(a, t, node, birth, k, d) ==
    [tree |-> IF birth
              THEN AddChildren([t EXCEPT ![node].extinct = TRUE], node, k - 1, d)
              ELSE [t EXCEPT ![node].extinct = TRUE],
     event |-> IF birth THEN "birth" ELSE "death",
     node |-> node,
     draws |-> IF birth THEN 1 + PoissonDraws(a.lam) ELSE 1]

\* The event proper: `node` goes extinct and, on a birth, gets k children
\* of branch length d.  `draws` counts the numpy draws made by the birth
\* test and the number of children.
ApplyEvent(a, t, node, birth, k, d) ==
    [tree |-> IF birth
              THEN AddChildren([t EXCEPT ![node].extinct = TRUE], node, k, d)
              ELSE [t EXCEPT ![node].extinct = TRUE],
     event |-> IF birth THEN "birth" ELSE "death",
     node |-> node,
     draws |-> IF birth THEN 1 + PoissonDraws(a.lam) ELSE 1]

\* The exit of _gen_tree's loop after an applied event.
StandardExit(a, n, tt) ==
    IF n = 0 THEN "extinct"
    ELSE IF MinLeavesReached(a, n) THEN "min_leaves"
    ELSE IF a.max_time # 0 /\ tt >= a.max_time THEN "max_time"
    ELSE ""

StandardResult(a, t, n, ev, tt, event_time, r) ==
    [tree |-> IF n = 0 THEN <<>> ELSE t, leaves |-> <<>>,
     total_time |-> tt, rng |-> r, stop |-> StandardExit(a, n, tt),
     event |-> ev.event, node |-> ev.node, event_time |-> event_time,
     n_after |-> n]

StandardExtend(a, t, ev, tt, event_time, r) ==
    StandardResult(a, t, Len(Extant(t)), ev, tt, event_time, r)

StandardApplied(a, ev, tt, event_time, r) ==
    StandardExtend(a, ExtendExtant(ev.tree, event_time, a.max_time), ev, tt,
                   event_time, NpAdvance(r, ev.draws))

\* The event on the selected node (r: the streams after the selection).
StandardSelected(a, t, node, tt, event_time, r) ==
    StandardApplied(a,
        ApplyEvent(a, t, node, IsBirth(NpPeek(r, 0), a),
                   2 + Poisson(NpPeek(r, 1), a.lam), 0),
        tt, event_time, r)

\* The iteration once event_time is drawn (r: the streams after the draw).
StandardAfterDraw(a, t, tt, event_time, r) ==
    IF Overshoot(a, tt + event_time)
    THEN [tree |-> t, leaves |-> <<>>, total_time |-> tt + event_time,
          rng |-> r, stop |-> "overshoot", event |-> "none", node |-> 0,
          event_time |-> event_time, n_after |-> Len(Extant(t))]
    ELSE StandardSelected(a, t, Choice(Extant(t), NpPeek(r, 0)),
                          tt + event_time, event_time,
                          NpAdvance(r, SelectDraws(Len(Extant(t)))))

\* One iteration of the `while True` loop of _gen_tree.  The result holds
\* the new tree, time and streams, the exit taken ("" when the loop goes
\* on) and the kind of event applied.
StandardIteration(a, t, tt, r) ==
    StandardAfterDraw(a, t, tt,
        Expovariate(PyPeek(r, 0), Len(Extant(t)) * (a.birth + a.death)),
        PyAdvance(r, 1))

\* --------------------------------------------------- Amortized strategy
RemoveAt(s, i) == SubSeq(s, 1, i - 1) \o SubSeq(s, i + 1, Len(s))

\* node.dist = now - node.dist for every node of the leaves list.
FinishLeaves(t, ls, now) ==
    [n \in 1 .. Len(t) |->
        IF n \in Range(ls) THEN [t[n] EXCEPT !.dist = now - @] ELSE t[n]]

\* The leaves list after the event at position leaf_n: on a birth the first
\* child replaces its parent and the other children are appended; on a
\* death the node is removed.
UpdateLeavesKeepsDead(ls, leaf_n, ev, old_len) ==
    IF ev.event = "birth"
    THEN [ls EXCEPT ![leaf_n] = old_len + 1]
         \o [i \in 1 .. (Len(ev.tree) - old_len - 1) |-> old_len + 1 + i]
    ELSE ls

UpdateLeaves(ls, leaf_n, ev, old_len) ==
    IF ev.event = "birth"
    THEN [ls EXCEPT ![leaf_n] = old_len + 1]
         \o [i \in 1 .. (Len(ev.tree) - old_len - 1) |-> old_len + 1 + i]
    ELSE RemoveAt(ls, leaf_n)

FastResult(a, ev, ls, tt, event_time, r) ==
    [tree |-> IF ls = <<>> THEN <<>>
              ELSE IF MinLeavesReached(a, Len(ls))
              THEN FinishLeaves(ev.tree, ls, tt) ELSE ev.tree,
     leaves |-> ls, total_time |-> tt, rng |-> r,
     stop |-> IF ls = <<>> THEN "extinct"
              ELSE IF MinLeavesReached(a, Len(ls)) THEN "min_leaves" ELSE "",
     event |-> ev.event, node |-> ev.node, event_time |-> event_time,
     n_after |-> Len(ls)]

FastApplied(a, ev, ls, leaf_n, old_len, tt, event_time, r) ==
    FastResult(a, ev, UpdateLeaves(ls, leaf_n, ev, old_len), tt, event_time,
               NpAdvance(r, ev.draws))

\* The event on the node at position leaf_n of the leaves list (r: the
\* streams after the selection): its branch
\* length is finished (node.dist = total_time - node.dist), the children
\* are created with the current time as their dist.
FastEvent(a, t, ls, leaf_n, tt, event_time, r) ==
    FastApplied(a,
        ApplyEvent(a, [t EXCEPT ![ls[leaf_n]].dist = tt - @], ls[leaf_n],
                   IsBirth(NpPeek(r, 0), a),
                   2 + Poisson(NpPeek(r, 1), a.lam), tt),
        ls, leaf_n, Len(t), tt, event_time, r)

FastAfterDraw(a, t, ls, tt, event_time, r) ==
    IF Overshoot(a, tt + event_time)
    THEN [tree |-> FinishLeaves(t, ls, a.max_time), leaves |-> ls,
          total_time |-> tt + event_time, rng |-> r, stop |-> "overshoot",
          event |-> "none", node |-> 0, event_time |-> event_time,
          n_after |-> Len(ls)]
    ELSE FastEvent(a, t, ls, (NpPeek(r, 0) % Len(ls)) + 1, tt + event_time,
                   event_time, NpAdvance(r, SelectDraws(Len(ls))))

\* One iteration of the `while True` loop of _gen_tree_fast; `ls` is the
\* `leaves` list.
FastIteration(a, t, ls, tt, r) ==
    FastAfterDraw(a, t, ls, tt,
        Expovariate(PyPeek(r, 0), Len(ls) * (a.birth + a.death)),
        PyAdvance(r, 1))

\* ---------------------------------------------------------------- prune
RECURSIVE PathToRoot(_, _)
\* The nodes from n up to the root, n included.
PathToRoot(t, n) == IF n = 0 THEN {} ELSE {n} \cup PathToRoot(t, t[n].up)

Present(t) == {n \in 1 .. Len(t) : t[n].present}

\* The kept nodes that lie strictly below v.
Visitors(t, v, kept) == {x \in kept : x # v /\ v \in PathToRoot(t, x)}

Depth(t, n) == Cardinality(PathToRoot(t, n)) - 1

\* ete3 TreeNode.prune(nodes): the nodes kept are the given ones, the root
\* and, for every set of two or more given nodes, the deepest node lying on
\* the paths of exactly those nodes, unless a kept node lies on them.
ToKeep(t, nodes) ==
    LET base == nodes \cup {1}
        inner == {v \in Present(t) : Cardinality(Visitors(t, v, nodes)) > 1}
        Group(v) == {w \in inner : Visitors(t, w, nodes) = Visitors(t, v, nodes)}
    IN  base \cup {v \in inner :
                     /\ Group(v) \cap base = {}
                     /\ \A w \in Group(v) : Depth(t, w) <= Depth(t, v)}

RECURSIVE PostorderBelow(_, _)
RECURSIVE PostorderAll(_, _)
PostorderBelow(t, n) == PostorderAll(t, t[n].children)
PostorderAll(t, cs) ==
    IF cs = <<>> THEN <<>>
    ELSE PostorderBelow(t, Head(cs)) \o <<Head(cs)>> \o PostorderAll(t, Tail(cs))

\* ete3 TreeNode.delete(prevent_nondicotomic=False): the children of n
\* are appended to the children of its parent, n is removed; no branch
\* length is transferred (preserve_branch_length is left False).
Delete(t, n) ==
    LET p == t[n].up
        cs == t[n].children
    IN  [m \in 1 .. Len(t) |->
            IF m = p
            THEN [t[m] EXCEPT !.children =
                     SelectSeq(@ \o cs, LAMBDA c : c # n)]
            ELSE IF m \in Range(cs) THEN [t[m] EXCEPT !.up = p]
            ELSE IF m = n THEN [t[m] EXCEPT !.present = FALSE,
                                            !.children = <<>>, !.up = 0]
            ELSE t[m]]

RECURSIVE DeleteAll(_, _, _)
DeleteAll(t, order, keep) ==
    IF order = <<>> THEN t
    ELSE LET t2 == IF Head(order) \in keep THEN t ELSE Delete(t, Head(order))
         IN  IF Done(t2) THEN DeleteAll(t2, Tail(order), keep) ELSE t2

\* tree.prune(nodes) as _gen_tree and _gen_tree_fast call it.
Prune(t, nodes) == DeleteAll(t, PostorderBelow(t, 1), ToKeep(t, Range(nodes)))

\* --------------------------------------------------------------- labels
\* A label is a sequence of one-character strings.
LOWER == <<"a", "b", "c", "d", "e", "f", "g", "h", "i", "j", "k", "l", "m",
           "n", "o", "p", "q", "r", "s", "t", "u", "v", "w", "x", "y", "z">>
UPPER == <<"A", "B", "C", "D", "E", "F", "G", "H", "I", "J", "K", "L", "M",
           "N", "O", "P", "Q", "R", "S", "T", "U", "V", "W", "X", "Y", "Z">>
DIGITS == <<"0", "1", "2", "3", "4", "5", "6", "7", "8", "9">>

IndexIn(tab, c) == IF \E i \in 1 .. Len(tab) : tab[i] = c
                   THEN CHOOSE i \in 1 .. Len(tab) : tab[i] = c ELSE 0
ToLower(c) == IF IndexIn(UPPER, c) # 0 THEN LOWER[IndexIn(UPPER, c)] ELSE c
ToUpper(c) == IF IndexIn(LOWER, c) # 0 THEN UPPER[IndexIn(LOWER, c)] ELSE c

\* str.lower() and str.capitalize().
StrLower(w) == [i \in 1 .. Len(w) |-> ToLower(w[i])]
Capitalize(w) == [i \in 1 .. Len(w) |->
                    IF i = 1 THEN ToUpper(w[i]) ELSE ToLower(w[i])]

StartsWith(w, old) == Len(w) >= Len(old) /\ SubSeq(w, 1, Len(old)) = old
Contains(w, old) ==
    \E i \in 1 .. Len(w) : StartsWith(SubSeq(w, i, Len(w)), old)

RECURSIVE Replace(_, _, _)
\* str.replace(old, new): every non-overlapping occurrence, left to right.
Replace(w, old, new) ==
    IF w = <<>> THEN <<>>
    ELSE IF StartsWith(w, old)
         THEN new \o Replace(SubSeq(w, Len(old) + 1, Len(w)), old, new)
         ELSE <<Head(w)>> \o Replace(Tail(w), old, new)

SOUNDS_C == <<"b", "p", "d", "t", "f", "v", "s", "z", "r", "l", "g", "k",
              "m", "n", "h">>
SOUNDS_V == <<"a", "e", "i", "o", "u">>
COMPLEX_CLUSTERS ==
    << <<"p", "b">>, <<"b", "p">>, <<"s", "z">>, <<"z", "s">>, <<"d", "l">>,
       <<"g", "k">>, <<"k", "g">>, <<"b", "d">>, <<"d", "b">>, <<"z", "p">>,
       <<"p", "v">>, <<"p", "f">>, <<"s", "r">> >>
PATTERNS == << <<"V">>, <<"C", "V">>, <<"C", "V">>, <<"C", "V", "C">> >>

Sounds(class) == IF class = "C" THEN SOUNDS_C ELSE SOUNDS_V

\* The sounds of one syllable of the given pattern, one draw per class.
SyllableOf(pattern, r) ==
    [text |-> [j \in 1 .. Len(pattern) |->
                  Choice(Sounds(pattern[j]), NpPeek(r, j))],
     rng |-> NpAdvance(r, 1 + Len(pattern))]

\* One syllable of _gen_syl: a pattern is chosen, then one sound per class.
GenSyllable(r) == SyllableOf(Choice(PATTERNS, NpPeek(r, 0)), r)

JoinSyllables(text, rest) == [text |-> text \o rest.text, rng |-> rest.rng]

RECURSIVE GenSyllables(_, _)
NextSyllables(n, one) == JoinSyllables(one.text, GenSyllables(n, one.rng))

GenSyllables(n, r) ==
    IF n = 0 THEN [text |-> <<>>, rng |-> r]
    ELSE NextSyllables(n - 1, GenSyllable(r))

\* "".join(_gen_syl(min_syl, max_syl)); np.random.randint(lo, hi) over a
\* single value draws nothing.
GenSyl(min_syl, max_syl, r) ==
    IF min_syl = max_syl THEN GenSyllables(min_syl, r)
    ELSE GenSyllables(min_syl + (NpPeek(r, 0) % (max_syl - min_syl + 1)),
                      NpAdvance(r, 1))

RECURSIVE DropH(_, _)
\* for cons in _SOUNDS["C"]: replace cons+"h" by cons, "h"+cons by cons.
DropH(w, i) ==
    IF Done(w) /\ i > Len(SOUNDS_C) THEN w
    ELSE DropH(Replace(Replace(w, <<SOUNDS_C[i], "h">>, <<SOUNDS_C[i]>>),
                       <<"h", SOUNDS_C[i]>>, <<SOUNDS_C[i]>>), i + 1)

RECURSIVE DropClusters(_, _)
\* cluster[np.random.randint(0, 1)] is always cluster[0].
DropClusters(w, i) ==
    IF Done(w) /\ i > Len(COMPLEX_CLUSTERS) THEN w
    ELSE DropClusters(IF Contains(w, COMPLEX_CLUSTERS[i])
                      THEN Replace(w, COMPLEX_CLUSTERS[i],
                                   <<COMPLEX_CLUSTERS[i][1]>>)
                      ELSE w, i + 1)

RECURSIVE DropGeminates(_, _)
DropGeminates(w, i) ==
    IF Done(w) /\ i > Len(SOUNDS_V) THEN w
    ELSE DropGeminates(Replace(w, <<SOUNDS_V[i], SOUNDS_V[i]>>,
                               <<SOUNDS_V[i]>>), i + 1)

\* if label.startswith("i"): label = "w" + label
InitialW(w) == IF StartsWith(w, <<"i">>) THEN <<"w">> \o w ELSE w

\* common._clean_label
CleanLabel(label) ==
    Capitalize(InitialW(DropGeminates(DropClusters(DropH(
        Replace(StrLower(label), <<"h", "h">>, <<>>), 1), 1), 1)))

\* Largest number of syllables appended to one label to make it unique.
MaxExtra == 4

RECURSIVE MakeUnique(_, _, _, _)
\* label = _clean_label(label + _gen_syl(1, 1)[0])
AppendSyllable(label, ret_labels, syl, extra) ==
    MakeUnique(CleanLabel(label \o syl.text), ret_labels, syl.rng, extra + 1)

\* The check `label not in ret_labels` left out.
MakeUniqueSkipped(label, ret_labels, r, extra) ==
    [label |-> label, rng |-> r, extra |-> extra, ok |-> TRUE]

\* The `while True` loop of random_labels: syllables are appended one at a
\* time until the label is not among those collected.
MakeUnique(label, ret_labels, r, extra) ==
    IF label \notin Range(ret_labels)
    THEN [label |-> label, rng |-> r, extra |-> extra, ok |-> TRUE]
    ELSE IF extra >= MaxExtra
    THEN [label |-> label, rng |-> r, extra |-> extra, ok |-> FALSE]
    ELSE AppendSyllable(label, ret_labels, GenSyl(1, 1, r), extra)

\* syllables = _gen_syl(2, 3); label = _clean_label("".join(syllables))
FirstLabel(ret_labels, syl) ==
    MakeUnique(CleanLabel(syl.text), ret_labels, syl.rng, 0)

RECURSIVE CollectLabels(_, _, _, _)
\* ret_labels.append(label)
Collect(size, ret_labels, u, extra) ==
    IF ~u.ok
    THEN [labels |-> ret_labels, rng |-> u.rng, extra |-> extra, ok |-> FALSE]
    ELSE CollectLabels(size - 1, Append(ret_labels, u.label), u.rng,
                       extra + u.extra)

\* `for _ in range(size)` of random_labels; extra counts the syllables
\* appended for uniqueness.
CollectLabels(size, ret_labels, r, extra) ==
    IF Done(ret_labels) /\ size = 0
    THEN [labels |-> ret_labels, rng |-> r, extra |-> extra, ok |-> TRUE]
    ELSE Collect(size, ret_labels, FirstLabel(ret_labels, GenSyl(2, 3, r)),
                 extra)

\* common.random_labels(size, seed); e1, e2 are the entropy set_seeds would
\* use for seed None.
RandomLabels(size, s, e1, e2, r) ==
    CollectLabels(size, <<>>, SetSeeds(s, e1, e2, r), 0)

RECURSIVE Decimal(_)
Decimal(n) == IF n < 10 THEN <<DIGITS[n + 1]>>
              ELSE Decimal(n \div 10) \o <<DIGITS[(n % 10) + 1]>>

RECURSIVE Zeros(_)
Zeros(n) == IF n <= 0 THEN <<>> ELSE <<"0">> \o Zeros(n - 1)

\* "L%0<width>i" % v
EnumLabel(v, width) ==
    <<"L">> \o Zeros(width - Len(Decimal(v))) \o Decimal(v)

\* 1 + math.floor(math.log10(n))
PadWidth(n) == Len(Decimal(n))

\* -------------------------------------------------------- random_species
LastIn(w, set) == w # <<>> /\ w[Len(w)] \in set

\* label + choice(V) + choice(["s", ""]) when the label ends neither in a
\* vowel nor in s or r; two draws per such label.
Suffix(w, r) ==
    IF LastIn(w, Range(SOUNDS_V) \cup {"s", "r"})
    THEN [label |-> w, rng |-> r]
    ELSE [label |-> w \o <<Choice(SOUNDS_V, NpPeek(r, 0))>>
                      \o Choice(<< <<"s">>, <<>> >>, NpPeek(r, 1)),
          rng |-> NpAdvance(r, 2)]

\* label + "s" when the label ends in `last` and random() <= num / den;
\* the draw is made only for the labels that end in `last`.
AddS(w, r, last, num, den) ==
    IF ~LastIn(w, {last}) THEN [label |-> w, rng |-> r]
    ELSE [label |-> IF den * NpPeek(r, 0) <= num * RawRange
                    THEN w \o <<"s">> ELSE w,
          rng |-> NpAdvance(r, 1)]

\* label + choice(["r", "r", "l"]) + choice(V) + "s" when len(label) < 5.
PadShort(w, r) ==
    IF Len(w) >= 5 THEN [label |-> w, rng |-> r]
    ELSE [label |-> w \o <<Choice(<<"r", "r", "l">>, NpPeek(r, 0))>>
                      \o <<Choice(SOUNDS_V, NpPeek(r, 1)), "s">>,
          rng |-> NpAdvance(r, 2)]

\* The list comprehensions of random_species that draw per label.
PerLabel(pass, w, r) ==
    CASE pass = "suffix" -> Suffix(w, r)
      [] pass = "is" -> AddS(w, r, "i", 3, 4)
      [] pass = "as" -> AddS(w, r, "a", 1, 2)
      [] pass = "short" -> PadShort(w, r)

ConsLabel(w, rest) == [labels |-> <<w>> \o rest.labels, rng |-> rest.rng]

RECURSIVE EachLabel(_, _, _)
RestLabels(pass, one, ls) ==
    ConsLabel(one.label, EachLabel(pass, ls, one.rng))

EachLabel(pass, ls, r) ==
    IF ls = <<>> THEN [labels |-> <<>>, rng |-> r]
    ELSE RestLabels(pass, PerLabel(pass, Head(ls), r), Tail(ls))

PLOSIVES == <<"t", "p">>
GEMINABLE == <<"b", "p", "d", "t", "s", "r", "l", "g", "m", "n">>

RECURSIVE Aspirate(_, _, _, _, _)
\* The passes `for plosive in "tp": for vowel in V` over the label at
\* position j of m labels: pass p draws for every label in turn.
Aspirate(w, r, j, m, p) ==
    IF Done(w) /\ p >= 10 THEN w
    ELSE Aspirate(
           IF 2 * NpPeek(r, p * m + j - 1) <= RawRange
           THEN Replace(w, <<PLOSIVES[(p \div 5) + 1], SOUNDS_V[(p % 5) + 1]>>,
                        <<PLOSIVES[(p \div 5) + 1], "h", SOUNDS_V[(p % 5) + 1]>>)
           ELSE w, r, j, m, p + 1)

\* label.replace(v1 + c + v2, v1 + c + c + v2)
Double(w, v1, c, v2) == Replace(w, <<v1, c, v2>>, <<v1, c, c, v2>>)

RECURSIVE GeminateCons(_, _, _, _, _, _)
\* The 25 passes `for vowel1: for vowel2` of the consonant number ci.
GeminateCons(w, r, j, m, ci, q) ==
    IF Done(w) /\ q >= 25 THEN w
    ELSE GeminateCons(
           IF 5 * NpPeek(r, ((ci - 1) * 25 + q) * m + j - 1) < 2 * RawRange
           THEN Double(w, SOUNDS_V[(q \div 5) + 1], GEMINABLE[ci],
                       SOUNDS_V[(q % 5) + 1])
           ELSE w, r, j, m, ci, q + 1)

RECURSIVE Geminate(_, _, _, _, _)
\* The passes `for cons in "bpdtsrlgmn": for vowel1: for vowel2` over the
\* label at position j of m labels.
Geminate(w, r, j, m, ci) ==
    IF Done(w) /\ ci > Len(GEMINABLE) THEN w
    ELSE Geminate(GeminateCons(w, r, j, m, ci, 0), r, j, m, ci + 1)

\* lower(), then "h" removed, "f" to "ph", "k" to "c".
Latinize(w) ==
    Replace(Replace(Replace(StrLower(w), <<"h">>, <<>>),
                    <<"f">>, <<"p", "h">>), <<"k">>, <<"c">>)

EndUsEs(w) == IF LastIn(w, {"u", "e"}) THEN w \o <<"s">> ELSE w
EndIi(w) == IF LastIn(w, {"i"}) THEN w \o <<"i">> ELSE w
InitialS(w) ==
    IF StartsWith(w, <<"p">>) \/ StartsWith(w, <<"b">>) THEN <<"s">> \o w ELSE w

\* The list comprehensions of random_species that draw nothing.
Rewrite(pass, w) ==
    CASE pass = "latin" -> Latinize(w)
      [] pass = "us" -> EndUsEs(w)
      [] pass = "ii" -> EndIi(w)
      [] pass = "sp" -> InitialS(w)

\* The steps of random_species over x = [labels, rng, extra, ok].
Mapped(x, pass) ==
    [x EXCEPT !.labels = [i \in 1 .. Len(@) |-> Rewrite(pass, @[i])]]
Drawn(x, pass) == EachLabel(pass, x.labels, x.rng) @@ x
Aspirated(x) ==
    [x EXCEPT !.labels = [j \in 1 .. Len(@) |->
                             Aspirate(@[j], x.rng, j, Len(@), 0)],
              !.rng = NpAdvance(@, 10 * Len(x.labels))]
Geminated(x) ==
    [x EXCEPT !.labels = [j \in 1 .. Len(@) |->
                             Geminate(@[j], x.rng, j, Len(@), 1)],
              !.rng = NpAdvance(@, 250 * Len(x.labels))]

\* "%s %s" % (_clean_label(genus), _clean_label(epithet).lower())
Binomials(x, size) ==
    [x EXCEPT !.labels =
        IF ~x.ok THEN <<>>
        ELSE [i \in 1 .. size |->
                 CleanLabel(@[i]) \o <<" ">> \o StrLower(CleanLabel(@[size + i]))]]

\* common.random_species(size, seed)
RandomSpecies(size, s, e1, e2, r) ==
    Binomials(
      Drawn(Geminated(Mapped(Aspirated(
        Drawn(Mapped(Drawn(Mapped(Drawn(
          Mapped(RandomLabels(size * 2, s, e1, e2, r), "latin"),
          "suffix"), "us"), "is"), "ii"), "as")), "sp")), "short"),
      size)

\* Order of Python strings: by code point.
CharCode(c) ==
    IF c = " " THEN 32
    ELSE IF IndexIn(DIGITS, c) # 0 THEN 47 + IndexIn(DIGITS, c)
    ELSE IF IndexIn(UPPER, c) # 0 THEN 64 + IndexIn(UPPER, c)
    ELSE 96 + IndexIn(LOWER, c)

RECURSIVE StrLess(_, _)
StrLess(a, b) ==
    IF b = <<>> THEN FALSE
    ELSE IF a = <<>> THEN TRUE
    ELSE IF Head(a) = Head(b) THEN StrLess(Tail(a), Tail(b))
    ELSE CharCode(Head(a)) < CharCode(Head(b))

RECURSIVE SortedSet(_)
\* sorted(set(...))
SortedSet(S) ==
    IF S = {} THEN <<>>
    ELSE LET lo == CHOOSE x \in S : \A y \in S \ {x} : StrLess(x, y)
         IN  <<lo>> \o SortedSet(S \ {lo})

\* ------------------------------------------------------------ label_tree
\* Every node named, not only the leaves.
SetNamesEveryNode(t, ids, names) ==
    [n \in 1 .. Len(t) |-> [t[n] EXCEPT !.name = names[1]]]

\* `leaf_node.name = name` over zip(leaves, names).
SetNames(t, ids, names) ==
    [n \in 1 .. Len(t) |->
        IF \E i \in 1 .. Min(Len(ids), Len(names)) : ids[i] = n
        THEN [t[n] EXCEPT !.name =
                 names[CHOOSE i \in 1 .. Min(Len(ids), Len(names)) : ids[i] = n]]
        ELSE t[n]]

\* The fallback names left out.
NameSpeciesNoFill(t, lvs, sp, species) ==
    [tree |-> SetNames(t, lvs, species),
     rng |-> sp.rng, ok |-> sp.ok, extra |-> sp.extra]

\* `for leaf_node, name in zip(tree.get_leaves(), species)`, the species
\* being sorted(set(...)) filled up with "L%i" labels.
NameSpecies(t, lvs, sp, species) ==
    [tree |-> SetNames(t, lvs,
                 species \o [i \in 1 .. (Len(lvs) - Len(species)) |->
                                <<"L">> \o Decimal(i - 1)]),
     rng |-> sp.rng, ok |-> sp.ok, extra |-> sp.extra]

BioNames(t, lvs, sp) == NameSpecies(t, lvs, sp, SortedSet(Range(sp.labels)))

HumanNames(t, lvs, hl) ==
    [tree |-> SetNames(t, lvs, hl.labels), rng |-> hl.rng, ok |-> hl.ok,
     extra |-> hl.extra]

EnumNames(t, lvs, r) ==
    [tree |-> SetNames(t, lvs,
                 [i \in 1 .. Len(lvs) |-> EnumLabel(i, PadWidth(Len(lvs)))]),
     rng |-> r, ok |-> TRUE, extra |-> 0]

LabelLeaves(t, lvs, model, s, e1, e2, r) ==
    IF model = "bio"
    THEN BioNames(t, lvs, RandomSpecies(Len(lvs), s, e1, e2, r))
    ELSE IF model = "human"
    THEN HumanNames(t, lvs, RandomLabels(Len(lvs), s, e1, e2, r))
    ELSE EnumNames(t, lvs, r)

\* label_tree(tree, model, seed): names the leaves in place.
LabelTree(t, model, s, e1, e2, r) ==
    LabelLeaves(t, GetLeaves(t), model, s, e1, e2, r)

\* ------------------------------------------ end of an attempt (both)
\* The test of the number of extant leaves left out.
NeverDegenerate(t) == FALSE

\* `len(__extant(tree)) <= 2`: the raw result is rejected.
DegenerateOffByOne(t) == Len(Extant(t)) <= 1

Degenerate(t) == Len(Extant(t)) <= 2

\* `if labels: label_tree(tree, model=labels, seed=seed)`
Labelled(a, t, raw, s, e1, e2, r) ==
    IF a.labels # "None" /\ t # <<>>
    THEN LabelTree(t, a.labels, s, e1, e2, r) @@ [raw |-> raw]
    ELSE [tree |-> t, rng |-> r, ok |-> TRUE, extra |-> 0, raw |-> raw]

\* `if prune: tree.prune(...)` on the extant leaves (Standard) or on the
\* leaves list (Amortized).
Pruned(a, t, ls, s, e1, e2, r) ==
    Labelled(a,
             IF a.prune /\ t # <<>>
             THEN Prune(t, IF a.method = "fast" THEN ls ELSE Extant(t))
             ELSE t,
             t, s, e1, e2, r)

\* The statements of _gen_tree / _gen_tree_fast after the loop: rejection,
\* pruning, labelling.  `ls` is the fast strategy's leaves list; `raw` of
\* the result is the tree before pruning.
AfterLoop(a, t, ls, s, e1, e2, r) ==
    Pruned(a, IF t # <<>> /\ Degenerate(t) THEN <<>> ELSE t, ls, s, e1, e2, r)

\* --------------------------------------------------------------- gen_tree
\* The check of `method` left out.
ValidArgsAnyMethod(a) ==
    /\ a.min_leaves # 0 \/ a.max_time # 0
    /\ a.labels \in {"enum", "human", "bio", "None"}

\* The three checks at the top of gen_tree.
ValidArgs(a) ==
    /\ a.min_leaves # 0 \/ a.max_time # 0
    /\ a.labels \in {"enum", "human", "bio", "None"}
    /\ a.method \in {"standard", "fast"}

\* `cur_attempt += 1; if cur_attempt == __MAX_ATTEMPTS: raise`
BudgetExceeded(attempt) == attempt = MAX_ATTEMPTS

\* The arguments explored: every combination of the simulation parameters
\* without labels, every label model (and an unknown one) on trees of four
\* leaves, an unknown method, and min_leaves = 1.  0 stands for a
\* min_leaves, max_time or lam that is not given.
ArgSpace ==
    [birth : {1}, death : {0, 1}, method : {"standard", "fast"},
     min_leaves : {0, 2, 4}, max_time : {0, 20}, lam : {0, 1},
     prune : BOOLEAN, labels : {"None"},
     seed : {None, UserSeed, UserSeed + 1}]
    \cup
    [birth : {1}, death : {0, 1}, method : {"standard", "fast"},
     min_leaves : {4}, max_time : {0}, lam : {0},
     prune : BOOLEAN, labels : {"enum", "human", "bio", "None", "roman"},
     seed : {UserSeed}]
    \cup
    [birth : {1}, death : {0}, method : {"turbo"},
     min_leaves : {0, 2, 4}, max_time : {0}, lam : {0},
     prune : {FALSE}, labels : {"None", "roman"}, seed : {UserSeed}]
    \cup
    [birth : {1}, death : {0, 1}, method : {"standard", "fast"},
     min_leaves : {1}, max_time : {0}, lam : {0},
     prune : {FALSE}, labels : {"None"}, seed : {UserSeed}]

NoArgs == [birth |-> 1, death |-> 0, method |-> "standard", min_leaves |-> 0,
           max_time |-> 0, lam |-> 0, prune |-> FALSE, labels |-> "None",
           seed |-> None]

NoRng == [py |-> Stream(None), np |-> Stream(None)]

NoObs == [sim_calls |-> 0, iter_seed |-> None, sim_seed |-> None,
          prev_sim_seed |-> None, rng0 |-> NoRng, last_event |-> "none",
          n_before |-> 0, n_after |-> 0, raw |-> <<>>, extra |-> 0,
          had_degenerate |-> FALSE, had_extinct |-> FALSE,
          born |-> <<>>, died |-> <<>>]

\* Seeds the operating system's entropy may give a stream.
Entropy == {2, 5}

Init ==
    /\ world \in 0 .. (NumWorlds - 1)
    /\ pc = "idle"
    /\ args = NoArgs
    /\ seed = None
    /\ cur_attempt = 0
    /\ rng = NoRng
    /\ tree = <<>>
    /\ leaves = <<>>
    /\ total_time = 0
    /\ stop = ""
    /\ outcome = "none"
    /\ calls = 0
    /\ first = [outcome |-> "none", tree |-> <<>>, args |-> NoArgs,
                sim_calls |-> 0]
    /\ obs = NoObs

\* The caller calls gen_tree: the second call repeats the arguments of the
\* first, but for `labels`.  The arguments are checked before anything else
\* happens.
GenTreeCall ==
    /\ pc = "idle"
    /\ \E a \in ArgSpace :
        /\ calls = 0 \/ [a EXCEPT !.labels = args.labels] = args
        /\ args' = a
        /\ seed' = a.seed
        /\ IF ValidArgs(a)
           THEN pc' = "top" /\ outcome' = "none" /\ obs' = NoObs
           ELSE /\ pc' = "raised"
                /\ outcome' = "ValueError"
                /\ obs' = [NoObs EXCEPT !.rng0 = rng]
    /\ cur_attempt' = 0
    /\ tree' = <<>>
    /\ leaves' = <<>>
    /\ total_time' = 0
    /\ stop' = ""
    /\ UNCHANGED <<world, rng, calls, first>>

\* Top of the retry loop: count the attempt, give up on the budget.
LoopTop ==
    /\ pc = "top"
    /\ cur_attempt' = cur_attempt + 1
    /\ IF BudgetExceeded(cur_attempt + 1)
       THEN pc' = "raised" /\ outcome' = "RuntimeError"
       ELSE pc' = "reseed" /\ UNCHANGED outcome
    /\ obs' = [obs EXCEPT !.iter_seed = seed]
    /\ UNCHANGED <<world, args, seed, rng, tree, leaves, total_time, stop,
                   calls, first>>

\* common.set_seeds(seed)
Reseed ==
    /\ pc = "reseed"
    /\ \E e1 \in Entropy, e2 \in Entropy : rng' = SetSeeds(seed, e1, e2, rng)
    /\ pc' = "draw"
    /\ UNCHANGED <<world, args, seed, cur_attempt, tree, leaves, total_time,
                   stop, outcome, calls, first, obs>>

\* The number `np.random.random()` gives on the streams r.
DrawnSeedPy(r) == PyPeek(r, 0)

DrawnSeed(r) == NpPeek(r, 0)

\* seed = np.random.random()
DrawSeed ==
    /\ pc = "draw"
    /\ seed' = DrawnSeed(rng)
    /\ rng' = NpAdvance(rng, 1)
    /\ pc' = "call"
    /\ UNCHANGED <<world, args, cur_attempt, tree, leaves, total_time, stop,
                   outcome, calls, first, obs>>

\* Entry of gen_function(..., seed=seed): the streams are seeded, the root
\* is created.
SimStart ==
    /\ pc = "call"
    /\ \E e1 \in Entropy, e2 \in Entropy : rng' = SetSeeds(seed, e1, e2, rng)
    /\ tree' = <<NewNode(0, 0)>>
    /\ leaves' = IF args.method = "fast" THEN <<1>> ELSE <<>>
    /\ total_time' = 0
    /\ stop' = ""
    /\ obs' = [obs EXCEPT !.sim_calls = @ + 1, !.sim_seed = seed,
                          !.prev_sim_seed = obs.sim_seed,
                          !.last_event = "none", !.n_before = 1,
                          !.n_after = 1, !.raw = <<>>,
                          !.born = <<0>>, !.died = <<None>>]
    /\ pc' = "sim"
    /\ UNCHANGED <<world, args, seed, cur_attempt, outcome, calls, first>>

\* The locals after one iteration `it` of an attempt's loop; `born` and
\* `died` keep, for every node, the simulation time of the event that
\* created it and of the event on it (None while it is extant).
Iterate(it, before) ==
    /\ Len(it.tree) <= MaxNodes
    /\ tree' = it.tree
    /\ leaves' = it.leaves
    /\ total_time' = it.total_time
    /\ rng' = it.rng
    /\ stop' = it.stop
    /\ pc' = IF it.stop = "" THEN "sim" ELSE "post"
    /\ obs' = [obs EXCEPT !.last_event = it.event, !.n_before = before,
                          !.n_after = it.n_after,
                          !.had_extinct = @ \/ it.stop = "extinct",
                          !.born = @ \o [i \in 1 .. (Len(it.tree) - Len(tree))
                                            |-> it.total_time],
                          !.died = [n \in 1 .. Len(it.tree) |->
                                       IF n = it.node THEN it.total_time
                                       ELSE IF n <= Len(tree) THEN obs.died[n]
                                       ELSE None]]

\* One iteration of _gen_tree's loop.
StandardStep ==
    /\ pc = "sim"
    /\ args.method = "standard"
    /\ Iterate(StandardIteration(args, tree, total_time, rng),
               Len(Extant(tree)))
    /\ UNCHANGED <<world, args, seed, cur_attempt, outcome, calls, first>>

\* One iteration of _gen_tree_fast's loop.
FastStep ==
    /\ pc = "sim"
    /\ args.method = "fast"
    /\ Iterate(FastIteration(args, tree, leaves, total_time, rng), Len(leaves))
    /\ UNCHANGED <<world, args, seed, cur_attempt, outcome, calls, first>>

\* The attempt returns `res.tree`; gen_tree's `if tree: break`.
Return(res) ==
    /\ res.ok
    /\ tree' = res.tree
    /\ rng' = res.rng
    /\ obs' = [obs EXCEPT !.raw = res.raw, !.extra = res.extra,
                          !.had_degenerate = @ \/ (tree # <<>> /\ res.raw = <<>>)]
    /\ IF res.tree # <<>>
       THEN pc' = "returned" /\ outcome' = "tree"
       ELSE pc' = "top" /\ UNCHANGED outcome

\* The end of the attempt and gen_tree's `if tree: break`.
AttemptEnd ==
    /\ pc = "post"
    /\ \E e1 \in Entropy, e2 \in Entropy :
         Return(AfterLoop(args, tree, leaves, seed, e1, e2, rng))
    /\ UNCHANGED <<world, args, seed, cur_attempt, leaves, total_time, stop,
                   calls, first>>

\* Any use of the generators by the caller between two calls.
OtherRngUse(r) ==
    {r, PyAdvance(NpAdvance(r, 1), 2)}
    \cup {[py |-> Stream(e), np |-> Stream(e)] : e \in Entropy}

\* The caller takes the result of the first call and goes on.
CallerContinues ==
    /\ pc \in {"returned", "raised"}
    /\ calls = 0
    /\ first' = [outcome |-> outcome, tree |-> tree, args |-> args,
                 sim_calls |-> obs.sim_calls]
    /\ calls' = 1
    /\ rng' \in OtherRngUse(rng)
    /\ pc' = "idle"
    /\ UNCHANGED <<world, args, seed, cur_attempt, tree, leaves, total_time,
                   stop, outcome, obs>>

Next ==
    \/ GenTreeCall
    \/ LoopTop
    \/ Reseed
    \/ DrawSeed
    \/ SimStart
    \/ StandardStep
    \/ FastStep
    \/ AttemptEnd
    \/ CallerContinues

Spec == Init /\ [][Next]_vars

\* ------------------------------------------- the functions called on a tree
\* label_tree, add_characters and simulate_bad_sampling take any tree of
\* the caller.  The trees explored: a root with an inner node and a leaf
\* below it, the inner node with two leaves; the root, the inner node and
\* its first leaf are unnamed or named "A", the two branches above the
\* latter two are of length zero or three.
Names == {<<>>, <<"A">>}

Node(up, children, dist, name) ==
    [NewNode(up, dist) EXCEPT !.children = children, !.name = name]

InputTrees ==
    {<<Node(0, <<2, 3>>, 0, n1), Node(1, <<4, 5>>, d2, n2),
       Node(1, <<>>, 3, <<>>), Node(2, <<>>, d4, n4), Node(2, <<>>, 3, <<>>)>> :
        n1 \in Names, n2 \in Names, n4 \in Names, d2 \in {0, 3}, d4 \in {0, 3}}

\* What random_species may return for `size` leaves: `size` binomials, some
\* of them possibly equal.
SpeciesLists(size) ==
    [1 .. size -> {<<"P", " ", "a">>, <<"P", " ", "b">>, <<"Q", " ", "a">>}]

LibInit ==
    /\ world \in 0 .. (NumWorlds - 1)
    /\ pc = "tree"
    /\ args = NoArgs
    /\ seed = None
    /\ cur_attempt = 0
    /\ rng \in {NoRng, [py |-> Stream(UserSeed), np |-> [seed |-> UserSeed, idx |-> 2]]}
    /\ tree \in InputTrees
    /\ leaves = <<>>
    /\ total_time = 0
    /\ stop = ""
    /\ outcome = "none"
    /\ calls = 0
    /\ first = [tree |-> <<>>, rng |-> NoRng]
    /\ obs = NoObs

\* label_tree(tree, model, seed) called on a tree of the caller; the
\* binomials of "bio" are any list random_species may return.
LabelTreeCall ==
    /\ pc = "tree"
    /\ \E model \in {"enum", "human", "bio"} :
       \E sp \in (IF model = "bio" THEN SpeciesLists(Len(GetLeaves(tree)))
                  ELSE {<<>>}) :
        /\ args' = [op |-> "label_tree", model |-> model, seed |-> UserSeed,
                    species |-> sp]
        /\ obs' = IF model = "bio"
                  THEN BioNames(tree, GetLeaves(tree),
                                [labels |-> sp, ok |-> TRUE, extra |-> 0,
                                 rng |-> SetSeeds(UserSeed, 2, 5, rng)])
                  ELSE LabelTree(tree, model, UserSeed, 2, 5, rng)
    /\ obs'.ok
    /\ tree' = obs'.tree
    /\ rng' = obs'.rng
    /\ first' = [tree |-> tree, rng |-> rng]
    /\ pc' = "labelled"
    /\ UNCHANGED <<world, seed, cur_attempt, leaves, total_time, stop,
                   outcome, calls>>

\* ----------------------------------------------------------- add_characters
RECURSIVE PreorderBelow(_, _)
RECURSIVE PreorderAll(_, _)
\* tree.traverse("preorder")
PreorderBelow(t, n) == <<n>> \o PreorderAll(t, t[n].children)
PreorderAll(t, cs) ==
    IF cs = <<>> THEN <<>>
    ELSE PreorderBelow(t, Head(cs)) \o PreorderAll(t, Tail(cs))

\* x.get_distance(tree): the branch lengths from x up to the root, the
\* root's own left out.
RECURSIVE GetDistance(_, _)
GetDistance(t, n) ==
    IF t[n].up = 0 THEN 0 ELSE t[n].dist + GetDistance(t, t[n].up)

\* The order of the keys (x.get_distance(tree), x.name).
KeyLess(t, a, b) ==
    \/ GetDistance(t, a) < GetDistance(t, b)
    \/ /\ GetDistance(t, a) = GetDistance(t, b)
       /\ StrLess(t[a].name, t[b].name)

\* sorted(nodes, key=...): a stable sort.
RECURSIVE Insert(_, _, _)
Insert(t, x, done) ==
    IF done = <<>> THEN <<x>>
    ELSE IF KeyLess(t, x, Head(done)) THEN <<x>> \o done
    ELSE <<Head(done)>> \o Insert(t, x, Tail(done))

RECURSIVE SortedBy(_, _)
SortedBy(t, ns) ==
    IF ns = <<>> THEN <<>>
    ELSE Insert(t, ns[Len(ns)], SortedBy(t, SubSeq(ns, 1, Len(ns) - 1)))

SortedNodes(t) == SortedBy(t, PreorderBelow(t, 1))

\* node.get_ancestors(): from the parent up to the root.
RECURSIVE Ancestors(_, _)
Ancestors(t, n) ==
    IF t[n].up = 0 THEN <<>> ELSE <<t[n].up>> \o Ancestors(t, t[n].up)

\* The head of sorted(ancestors, key=..., reverse=True): the ancestor of the
\* largest key, the nearest one of several.
RECURSIVE Latest(_, _, _)
Latest(t, best, rest) ==
    IF rest = <<>> THEN best
    ELSE Latest(t, IF KeyLess(t, best, Head(rest)) THEN Head(rest) ELSE best,
                Tail(rest))

\* np.random.gamma(k / mut_exp ** idx, th) from the raw draw u.
Gamma(u, k, th, a, idx) ==
    (u * k * th) \div ((RawRange - u) * (a.mut_exp ^ idx))

\* The loop over mutation_event with `states += 1` left out.
RECURSIVE MutateSameId(_, _, _, _, _)
MutateSameId(a, d, w, r, i) ==
    IF Done(w) /\ i > a.num_characters THEN w
    ELSE MutateSameId(a, d,
                IF Gamma(NpPeek(r, i - 1), a.k, a.th, a, i - 1) < d
                THEN [w EXCEPT !.chars[i] = w.states,
                               !.changed = @ \cup {i},
                               !.ids = Append(@, w.states)]
                ELSE w,
                r, i + 1)

\* The loop over mutation_event: w is the state vector with the counter
\* and the ids given out so far.
RECURSIVE Mutate(_, _, _, _, _)
Mutate(a, d, w, r, i) ==
    IF Done(w) /\ i > a.num_characters THEN w
    ELSE Mutate(a, d,
                IF Gamma(NpPeek(r, i - 1), a.k, a.th, a, i - 1) < d
                THEN [w EXCEPT !.chars[i] = w.states,
                               !.states = @ + 1,
                               !.changed = @ \cup {i},
                               !.ids = Append(@, w.states)]
                ELSE w,
                r, i + 1)

\* donor.get_distance(tree) < node.get_distance(tree), sorted.
PotSource(t, n) ==
    SelectSeq(SortedNodes(t),
              LAMBDA d : GetDistance(t, d) < GetDistance(t, n))

\* node.get_distance(donor): the branch lengths on the path between them.
NodeDistance(t, a, b) ==
    LET common == PathToRoot(t, a) \cap PathToRoot(t, b)
        top == CHOOSE x \in common : \A y \in common : Depth(t, y) <= Depth(t, x)
    IN  GetDistance(t, a) + GetDistance(t, b) - 2 * GetDistance(t, top)

\* donor_prob = (min(donor_prob) + max(donor_prob)) - donor_prob
DonorProb(dist) ==
    [i \in 1 .. Len(dist) |->
        (CHOOSE x \in Range(dist) : \A y \in Range(dist) : x <= y)
        + (CHOOSE x \in Range(dist) : \A y \in Range(dist) : x >= y)
        - dist[i]]

RECURSIVE SumTo(_, _)
SumTo(p, j) == IF j = 0 THEN 0 ELSE p[j] + SumTo(p, j - 1)

\* One draw of np.random.choice(pot_source, p=donor_prob / sum(donor_prob))
\* from the raw draw u.
Donor(src, p, u) ==
    src[CHOOSE j \in 1 .. Len(src) :
            /\ u * SumTo(p, Len(p)) < RawRange * SumTo(p, j)
            /\ \A i \in 1 .. (j - 1) :
                   u * SumTo(p, Len(p)) >= RawRange * SumTo(p, i)]

\* The loop over hgt_event and donor_nodes that leaves a character the
\* mutation loop has changed as it is.
RECURSIVE TransferUnlessMutated(_, _, _, _, _, _, _)
TransferUnlessMutated(a, d, all, src, w, r, i) ==
    IF Done(w) /\ i > a.num_characters THEN w
    ELSE TransferUnlessMutated(a, d, all, src,
                  IF Gamma(NpPeek(r, a.num_characters + i - 1),
                           a.k, a.th_hgt, a, i - 1) < d
                  THEN [w EXCEPT
                          !.chars[i] =
                              IF i \in w.changed THEN @
                              ELSE all[Donor(src.nodes, src.p,
                                             NpPeek(r, 2 * a.num_characters
                                                       + i - 1))][i],
                          !.hgt = @ \cup {i},
                          !.donor[i] =
                              Donor(src.nodes, src.p,
                                    NpPeek(r, 2 * a.num_characters + i - 1))]
                  ELSE w,
                  r, i + 1)

\* The loop over hgt_event and donor_nodes: draws C .. 2C-1 are the gamma
\* draws, draws 2C .. 3C-1 those of np.random.choice.  k_hgt_vec is built
\* from k (`[k / (mut_exp ** idx) ...]`), the scale is th_hgt.
RECURSIVE Transfer(_, _, _, _, _, _, _)
Transfer(a, d, all, src, w, r, i) ==
    IF Done(w) /\ i > a.num_characters THEN w
    ELSE Transfer(a, d, all, src,
                  IF Gamma(NpPeek(r, a.num_characters + i - 1),
                           a.k, a.th_hgt, a, i - 1) < d
                  THEN [w EXCEPT
                          !.chars[i] =
                              all[Donor(src.nodes, src.p,
                                        NpPeek(r, 2 * a.num_characters + i - 1))][i],
                          !.hgt = @ \cup {i},
                          !.donor[i] =
                              Donor(src.nodes, src.p,
                                    NpPeek(r, 2 * a.num_characters + i - 1))]
                  ELSE w,
                  r, i + 1)

\* `node.chars = chars` after `draws` draws.
Store(v, n, w, draws) ==
    [v EXCEPT !.chars[n] = w.chars, !.states = w.states,
              !.changed[n] = w.changed \cup w.hgt, !.ids = w.ids,
              !.mut[n] = w.changed, !.hgt[n] = w.hgt, !.donor[n] = w.donor,
              !.start[n] = v.rng,
              !.rng = NpAdvance(@, draws)]

\* pot_source with donor_prob.
Source(t, n, nodes) ==
    [nodes |-> nodes,
     p |-> DonorProb([i \in 1 .. Len(nodes) |-> NodeDistance(t, n, nodes[i])])]

\* The statements of one node after the copy of the ancestor's vector; v is
\* the state of the traversal, m the vector after the mutations.  min() of
\* an empty donor_prob raises.
AfterMutation(a, t, n, v, m) ==
    IF Done(v) /\ Done(m) /\ (a.k_hgt = 0 \/ a.th_hgt = 0)
    THEN Store(v, n, m, a.num_characters)
    ELSE IF PotSource(t, n) = <<>>
    THEN [v EXCEPT !.raised = "ValueError", !.states = m.states,
                   !.ids = m.ids, !.pool[n] = {},
                   !.rng = NpAdvance(@, 2 * a.num_characters)]
    ELSE Store([v EXCEPT !.pool[n] = Range(PotSource(t, n))], n,
               Transfer(a, t[n].dist, v.chars, Source(t, n, PotSource(t, n)),
                        m, v.rng, 1),
               3 * a.num_characters)

\* The statements of one node whose ancestors[0] is anc.
VisitBelow(a, t, v, n, anc) ==
    IF v.chars[anc] = <<>>
    THEN [v EXCEPT !.raised = "AttributeError", !.order = Append(@, n)]
    ELSE AfterMutation(a, t, n,
             [v EXCEPT !.order = Append(@, n), !.source[n] = anc],
             Mutate(a, t[n].dist,
                    [chars |-> v.chars[anc], states |-> v.states,
                     changed |-> {}, ids |-> v.ids, hgt |-> {},
                     donor |-> [i \in 1 .. a.num_characters |-> 0]],
                    v.rng, 1))

\* The body of `for node in sorted_nodes`.  A node without `chars` has the
\* empty vector; reading `ancestors[0].chars` of such a node raises.
Visit(a, t, v, n) ==
    IF v.raised # "" THEN v
    ELSE IF t[n].up = 0
    THEN [v EXCEPT !.chars[n] = [i \in 1 .. a.num_characters |-> i - 1],
                   !.order = Append(@, n)]
    ELSE VisitBelow(a, t, v, n, Latest(t, t[n].up, Tail(Ancestors(t, n))))

RECURSIVE VisitAll(_, _, _, _)
VisitAll(a, t, v, ns) ==
    IF Done(v) /\ ns = <<>> THEN v
    ELSE VisitAll(a, t, Visit(a, t, v, Head(ns)), Tail(ns))

\* add_characters(tree, num_characters, k, th, mut_exp, k_hgt, th_hgt, seed);
\* `chars` are the vectors the nodes carry at the call.
AddCharacters(a, t, chars, e, r) ==
    VisitAll(a, t,
             [chars |-> chars, states |-> a.num_characters,
              rng |-> SetSeeds(a.seed, e, e, r), raised |-> "",
              order |-> <<>>, ids |-> <<>>,
              source |-> [n \in 1 .. Len(t) |-> 0],
              changed |-> [n \in 1 .. Len(t) |-> {}],
              mut |-> [n \in 1 .. Len(t) |-> {}],
              hgt |-> [n \in 1 .. Len(t) |-> {}],
              donor |-> [n \in 1 .. Len(t) |-> <<>>],
              pool |-> [n \in 1 .. Len(t) |-> {0}],
              start |-> [n \in 1 .. Len(t) |-> NoRng]],
             SortedNodes(t))

\* The arguments explored; k_hgt = 0 stands for the default None, with
\* which `if k_hgt and th_hgt` is false.
CharArgs ==
    [op : {"add_characters"}, num_characters : {2}, k : {4}, th : {1},
     mut_exp : {1, 2}, k_hgt : {0, 1}, th_hgt : {2}, seed : {None, UserSeed}]

AddCharactersCall ==
    /\ pc = "tree"
    /\ \E a \in CharArgs :
       \E e \in (IF a.seed = None THEN Entropy ELSE {None}) :
        /\ args' = a
        /\ obs' = AddCharacters(a, tree, [n \in 1 .. Len(tree) |-> <<>>], e, rng)
    /\ rng' = obs'.rng
    /\ first' = [tree |-> tree, rng |-> rng]
    /\ pc' = IF obs'.raised = "" THEN "chars" ELSE "raised"
    /\ UNCHANGED <<world, seed, cur_attempt, tree, leaves, total_time, stop,
                   outcome, calls>>

\* ---------------------------------------------------- simulate_bad_sampling
\* ete3 TreeNode.delete() with its defaults (prevent_nondicotomic=True): the
\* node is removed from its parent, and a parent left with fewer than two
\* children is deleted in turn unless it is the root.
DeleteLeaf(t, n) ==
    IF t[n].up = 0 THEN t
    ELSE IF Len(t[t[n].up].children) < 3 /\ t[t[n].up].up # 0
    THEN Delete(Delete(t, n), t[n].up)
    ELSE Delete(t, n)

\* `for leaf, rnd_remove in zip(...): if rnd_remove <= cutoff: leaf.delete()`;
\* the draw number i of the state r0 is the one of the leaf number i, and a
\* cutoff c stands for c / RawRange.
RECURSIVE RemoveLeaves(_, _, _, _, _)
RemoveLeaves(t, lvs, cutoff, r0, i) ==
    IF Done(t) /\ i > Len(lvs) THEN t
    ELSE RemoveLeaves(IF NpPeek(r0, i - 1) <= cutoff
                      THEN DeleteLeaf(t, lvs[i]) ELSE t,
                      lvs, cutoff, r0, i + 1)

\* simulate_bad_sampling(tree, cutoff, seed); r0 is the state of the
\* generators after common.set_seeds(seed).
BadSampling(t, cutoff, r0) ==
    IF cutoff = 0
    THEN [tree |-> t, rng0 |-> r0, rng |-> r0, draws |-> 0, chars |-> <<>>]
    ELSE [tree |-> RemoveLeaves(t, GetLeaves(t), cutoff, r0, 1),
          rng0 |-> r0, rng |-> NpAdvance(r0, Len(GetLeaves(t))),
          draws |-> Len(GetLeaves(t)), chars |-> <<>>]

\* The call on a tree of the caller, before or after add_characters; a
\* cutoff of 0 is also the cutoff None.
BadSamplingCall ==
    /\ pc \in {"tree", "chars"}
    /\ \E cutoff \in {0, 3}, s \in {None, UserSeed} :
       \E e \in (IF s = None THEN Entropy ELSE {None}) :
        /\ args' = [op |-> "simulate_bad_sampling", cutoff |-> cutoff,
                    seed |-> s]
        /\ obs' = [BadSampling(tree, cutoff, SetSeeds(s, e, e, rng))
                      EXCEPT !.chars = IF pc = "chars" THEN obs.chars ELSE <<>>]
    /\ tree' = obs'.tree
    /\ rng' = obs'.rng
    /\ first' = [tree |-> tree, rng |-> rng]
    /\ pc' = "sampled"
    /\ UNCHANGED <<world, seed, cur_attempt, leaves, total_time, stop,
                   outcome, calls>>

\* ------------------------------------------------------------ sorted_newick
\* A Newick string is the sequence of the matches of the regular expression
\* of _parse: "(" alone (char), or a name, a length and the delimiter after
\* them.  Names are sequences of characters, lengths the text of the number
\* ("" when there is none).
Token(char, name, length, delim) ==
    [char |-> char, name |-> name, length |-> length, delim |-> delim]

\* _parse: the nested nodes of the string; a length is kept as the text
\* str() gives for float(length), or for None.
Parse(tk) ==
    LET float(text) ==
            CASE text = "" -> "None"
              [] text \in {"0", "0.0"} -> "0.0"
              [] text \in {"1", "1.0"} -> "1.0"
              [] OTHER -> "2.0"
        RECURSIVE traverse(_)
        RECURSIVE siblings(_, _)
        traverse(i) ==
            IF tk[i].char = "("
            THEN LET ch == siblings(i + 1, <<>>)
                 IN  [node |-> [name |-> tk[ch.next].name,
                                length |-> float(tk[ch.next].length),
                                children |-> ch.children],
                      delim |-> tk[ch.next].delim, next |-> ch.next + 1]
            ELSE [node |-> [name |-> tk[i].name,
                            length |-> float(tk[i].length),
                            children |-> <<>>],
                  delim |-> tk[i].delim, next |-> i + 1]
        siblings(i, acc) ==
            LET c == traverse(i)
            IN  IF c.delim = ","
                THEN siblings(c.next, Append(acc, c.node))
                ELSE [children |-> Append(acc, c.node), next |-> c.next]
    IN  traverse(1).node

\* sorted_newick(newick).  _node_sort sorts the children, stably, by
\* (name, -len(children)); _tree2str writes a leaf with its length,
\* whatever it is, and an inner node without its name, and without its
\* length when that is None or 0.  The text "None" is not a length of the
\* regular expression: the name before it is matched as a single character
\* with no delimiter, and `char in "(,"` raises TypeError for the
\* delimiter 0.
SortedNewick(tk) ==
    LET before(x, y) ==
            \/ StrLess(x.name, y.name)
            \/ x.name = y.name /\ Len(x.children) > Len(y.children)
        RECURSIVE insert(_, _)
        insert(x, done) ==
            IF done = <<>> THEN <<x>>
            ELSE IF before(x, Head(done)) THEN <<x>> \o done
            ELSE <<Head(done)>> \o insert(x, Tail(done))
        RECURSIVE sorted(_)
        sorted(ns) ==
            IF ns = <<>> THEN <<>>
            ELSE insert(ns[Len(ns)], sorted(SubSeq(ns, 1, Len(ns) - 1)))
        RECURSIVE node_sort(_)
        node_sort(node) ==
            [node EXCEPT !.children =
                sorted([i \in 1 .. Len(node.children) |->
                           node_sort(node.children[i])])]
        RECURSIVE tree2str(_, _)
        RECURSIVE elms(_)
        tree2str(node, delim) ==
            IF node.children = <<>>
            THEN <<Token("", node.name, node.length, delim)>>
            ELSE <<Token("(", <<>>, "", "")>> \o elms(node.children)
                 \o <<Token("", <<>>,
                            IF node.length \in {"None", "0.0"} THEN ""
                            ELSE node.length,
                            delim)>>
        elms(cs) ==
            IF Len(cs) = 1 THEN tree2str(cs[1], ")")
            ELSE tree2str(Head(cs), ",") \o elms(Tail(cs))
    IN  IF \E i \in 1 .. Len(tk) : tk[i].length = "None"
        THEN <<"TypeError">>
        ELSE tree2str(node_sort(Parse(tk)), ";")

\* Two strings of one tree, b with the children of a in another order:
\* "((l1,l2):1,(l3,l4):1);" with the inner nodes or the first two leaves
\* exchanged, and "((l1,l2):1,l3);" against "(l3,(l2,l1):1);".
NewickPairs ==
    LET ls == {<<name, length>> :
                  name \in {<<"A">>, <<"B">>, <<"C">>}, length \in {"", "1"}}
        leaf(l, delim) == Token("", l[1], l[2], delim)
        open == Token("(", <<>>, "", "")
        inner(l1, l2, delim) ==
            <<open, leaf(l1, ","), leaf(l2, ")"), Token("", <<>>, "1", delim)>>
        root == <<Token("", <<>>, "", ";")>>
        even(l1, l2, l3, l4) ==
            <<open>> \o inner(l1, l2, ",") \o inner(l3, l4, ")") \o root
    IN  {[a |-> even(l1, l2, l3, l4), b |-> even(l3, l4, l1, l2)] :
            l1 \in ls, l2 \in ls, l3 \in ls, l4 \in ls}
        \cup {[a |-> even(l1, l2, l3, l3), b |-> even(l2, l1, l3, l3)] :
            l1 \in ls, l2 \in ls, l3 \in ls}
        \cup {[a |-> <<open>> \o inner(l1, l2, ",") \o <<leaf(l3, ")")>> \o root,
               b |-> <<open, leaf(l3, ",")>> \o inner(l2, l1, ")") \o root] :
            l1 \in ls, l2 \in ls, l3 \in ls}

NewickInit ==
    /\ world = 0
    /\ pc = "newick"
    /\ args \in NewickPairs
    /\ seed = None
    /\ cur_attempt = 0
    /\ rng = NoRng
    /\ tree = <<>>
    /\ leaves = <<>>
    /\ total_time = 0
    /\ stop = ""
    /\ outcome = "none"
    /\ calls = 0
    /\ first = <<>>
    /\ obs = NoObs

\* sorted_newick called on both strings, and on the result of the first.
SortedNewickCalls ==
    /\ pc = "newick"
    /\ obs' = [a |-> SortedNewick(args.a), b |-> SortedNewick(args.b),
               again |-> SortedNewick(SortedNewick(args.a))]
    /\ pc' = "sorted"
    /\ UNCHANGED <<world, args, seed, cur_attempt, rng, tree, leaves,
                   total_time, stop, outcome, calls, first>>

NewickSpec == NewickInit /\ [][SortedNewickCalls]_vars

\* --------------------------------------- the two strategies on equal events
\* Both loops are fed the same events: the waiting time, the node selected,
\* birth or death, and the number of children.  `tree`, `stop` hold the
\* locals of _gen_tree, `obs.fast`, `leaves`, `obs.fstop` those of
\* _gen_tree_fast; total_time is common.
PairTimes == 2

PairMaxTime == 3

PairNodes == 6

PairInit ==
    /\ world = 0
    /\ pc = "pair"
    /\ args \in {a \in [birth : {1}, death : {1}, method : {"standard"},
                         min_leaves : {0, 4}, max_time : {0, PairMaxTime},
                         lam : {0, 1}, prune : {FALSE}, labels : {"None"},
                         seed : {UserSeed}] : ValidArgs(a)}
    /\ seed = UserSeed /\ cur_attempt = 1 /\ rng = NoRng
    /\ tree = <<NewNode(0, 0)>>
    /\ leaves = <<1>>
    /\ total_time = 0
    /\ stop = ""
    /\ outcome = "" /\ calls = 0 /\ first = <<>>
    /\ obs = [fast |-> <<NewNode(0, 0)>>, fstop |-> "", events |-> 0]

\* The locals of both loops after the iterations s (_gen_tree) and f
\* (_gen_tree_fast).
PairStep(s, f) ==
    /\ Len(s.tree) <= PairNodes
    /\ tree' = s.tree
    /\ stop' = s.stop
    /\ total_time' = s.total_time
    /\ leaves' = f.leaves
    /\ obs' = [fast |-> f.tree, fstop |-> f.stop, events |-> obs.events + 1]

\* One iteration of both loops on the event (event_time, node, birth, k).
PairEvent ==
    /\ pc = "pair" /\ stop = "" /\ obs.fstop = ""
    /\ \E event_time \in 1 .. PairTimes, leaf_n \in 1 .. Len(leaves),
          birth \in BOOLEAN, k \in 2 .. (2 + args.lam) :
         PairStep(
            IF Overshoot(args, total_time + event_time)
            THEN [tree |-> tree, stop |-> "overshoot",
                  total_time |-> total_time + event_time]
            ELSE StandardApplied(args,
                    ApplyEvent(args, tree, leaves[leaf_n], birth, k, 0),
                    total_time + event_time, event_time, rng),
            IF Overshoot(args, total_time + event_time)
            THEN [tree |-> FinishLeaves(obs.fast, leaves, args.max_time),
                  leaves |-> leaves, stop |-> "overshoot"]
            ELSE FastApplied(args,
                    ApplyEvent(args,
                        [obs.fast EXCEPT ![leaves[leaf_n]].dist =
                                             total_time + event_time - @],
                        leaves[leaf_n], birth, k, total_time + event_time),
                    leaves, leaf_n, Len(obs.fast), total_time + event_time,
                    event_time, rng))
    /\ UNCHANGED <<world, pc, args, seed, cur_attempt, rng, outcome, calls,
                   first>>

PairSpec == PairInit /\ [][PairEvent]_vars

LibNext ==
    \/ LabelTreeCall
    \/ AddCharactersCall
    \/ BadSamplingCall

LibSpec == LibInit /\ [][LibNext]_vars

\* ------------------------------------------------------------ properties
\* Sum of the branch lengths on the path from the root to node n, the
\* root's own branch length counted in (_gen_tree_fast stores the time of
\* the first event there, _gen_tree leaves it 0).
RECURSIVE RootDist(_, _)
RootDist(t, n) == IF n = 0 THEN 0 ELSE t[n].dist + RootDist(t, t[n].up)

Finished == pc \in {"returned", "raised"}

\* C1: two calls of gen_tree with the same arguments and the same explicit
\* seed end alike: the same outcome and, when a tree is returned, the same
\* nodes, branch lengths and leaf names, whatever the generators were used
\* for in between and however many attempts failed.
C1_Determinism ==
    (Finished /\ calls = 1 /\ args = first.args /\ args.seed # None)
        => (outcome = first.outcome /\ tree = first.tree)

\* The second of two seeded calls has returned a labelled tree after a
\* failed attempt.
C1_Witness ==
    /\ pc = "returned" /\ calls = 1 /\ args.seed # None
    /\ args = first.args
    /\ obs.sim_calls >= 2
    /\ args.labels = "human"
    /\ tree = first.tree

\* C2: in every iteration of gen_tree's loop the generators are seeded from
\* the current seed, one number is drawn from the fresh numpy stream, that
\* number is the seed the simulator is called with, and after a failed
\* attempt it is the current seed of the next iteration: the seed of an
\* attempt is the first draw of the stream seeded with the previous one.
C2_RetryProtocol ==
    /\ pc = "draw" =>
         /\ rng.np.idx = 0 /\ rng.py.idx = 0
         /\ obs.iter_seed # None =>
              rng.np.seed = obs.iter_seed /\ rng.py.seed = obs.iter_seed
    /\ pc = "call" =>
         /\ rng.np.idx = 1
         /\ seed = Raw(1, rng.np.seed, 0)
         /\ obs.iter_seed # None => rng.np.seed = obs.iter_seed
    /\ pc \in {"sim", "post"} =>
         /\ obs.sim_seed = seed
         /\ obs.sim_calls >= 2 => seed = Raw(1, obs.prev_sim_seed, 0)
    /\ (pc = "top" /\ obs.sim_calls >= 1) => seed = obs.sim_seed

\* The simulator runs its second attempt or a later one of a seeded call.
C2_Witness ==
    /\ pc = "sim" /\ obs.sim_calls >= 2 /\ args.seed # None
    /\ obs.sim_seed = Raw(1, obs.prev_sim_seed, 0)
    /\ obs.prev_sim_seed = Raw(1, args.seed, 0)

\* The arguments the claim C3 names as configuration errors.
Misconfigured(a) ==
    \/ a.min_leaves = 0 /\ a.max_time = 0
    \/ a.labels \notin {"enum", "human", "bio", "None"}
    \/ a.method \notin {"standard", "fast"}

C4_Exhaustion == outcome = "RuntimeError" => obs.sim_calls = MAX_ATTEMPTS

\* C5: gen_tree never returns None, and every tree it returns has at least
\* three extant leaves.
C5_NoFailureSurfaced ==
    pc = "returned" => (tree # <<>> /\ Len(Extant(tree)) >= 3)

\* A tree is returned by a call in which one attempt went extinct and one
\* ended with at most two extant leaves.
C5_Witness ==
    /\ pc = "returned" /\ obs.had_degenerate /\ obs.had_extinct
    /\ Len(Extant(tree)) >= 3

\* C6: a returned tree whose simulation stopped on min_leaves has at least
\* min_leaves extant leaves (and so at least min_leaves leaves).
C6_MinLeaves ==
    (pc = "returned" /\ stop = "min_leaves") =>
        /\ Len(Extant(tree)) >= args.min_leaves
        /\ Len(GetLeaves(tree)) >= args.min_leaves

\* A tree stopped on min_leaves is returned with more extant leaves than
\* asked for, after a birth of more than two children.
C6_Witness ==
    /\ pc = "returned" /\ stop = "min_leaves" /\ args.lam # 0
    /\ Len(Extant(tree)) > args.min_leaves

\* The time the simulation ran for: the clock stops at max_time.
Elapsed == IF args.max_time # 0 THEN Min(total_time, args.max_time)
           ELSE total_time

\* C7: in a tree returned unpruned whose simulation was stopped by
\* max_time, the branch lengths from the root to any leaf sum up to the
\* time the simulation ran for.
C7_MaxTime ==
    (pc = "returned" /\ ~args.prune /\ stop \in {"overshoot", "max_time"}) =>
        \A n \in Range(GetLeaves(tree)) : RootDist(tree, n) = Elapsed

\* C8: with death = 0 every event applied is a birth (an extinct node has
\* children), the number of extant leaves never decreases and no attempt
\* ends in total extinction.
C8_Yule ==
    (pc # "idle" /\ args.death = 0) =>
        /\ obs.last_event # "death"
        /\ obs.n_after >= obs.n_before
        /\ ~obs.had_extinct
        /\ stop # "extinct"
        /\ \A n \in 1 .. Len(tree) :
               (tree[n].present /\ tree[n].extinct) => tree[n].children # <<>>

\* A birth has just been applied in a simulation with death = 0.
C8_Witness ==
    /\ pc = "sim" /\ args.death = 0
    /\ obs.last_event = "birth"
    /\ obs.n_after > obs.n_before
    /\ Len(tree) >= 5

\* C9: a tree returned with prune = True has no extinct leaf, its leaves
\* are the leaves that were extant when the simulation stopped, and the
\* branch length of every node kept is the distance, in the unpruned tree,
\* to the nearest ancestor kept.
C9_Pruning ==
    (pc = "returned" /\ args.prune) =>
        /\ \A n \in Range(GetLeaves(tree)) : ~tree[n].extinct
        /\ Range(GetLeaves(tree)) = Range(Extant(obs.raw))
        /\ \A n \in Present(tree) \ {1} :
               tree[n].dist =
                   RootDist(obs.raw, n) - RootDist(obs.raw, tree[n].up)

\* C10: under the "enum" and "human" label models the leaves of a returned
\* tree have pairwise distinct names.
C10_UniqueLabels ==
    (pc = "returned" /\ args.labels \in {"enum", "human"}) =>
        \A m, n \in Range(GetLeaves(tree)) :
            m # n => tree[m].name # tree[n].name

\* A tree with "human" labels is returned, random_labels having appended
\* syllables to a label that was already collected.
C10_Witness ==
    /\ pc = "returned" /\ args.labels = "human" /\ obs.extra > 0
    /\ \A m, n \in Range(GetLeaves(tree)) : m # n => tree[m].name # tree[n].name

\* The tree t without the names of its nodes.
Unnamed(t) == [n \in 1 .. Len(t) |-> [t[n] EXCEPT !.name = <<>>]]

\* C12: two calls of gen_tree with the same seed and the same arguments but
\* for the label model return the same nodes and branch lengths after the
\* same number of attempts; only leaves are named, so the results differ
\* in the names of the leaves alone.
C12_LabelsApart ==
    (pc = "returned" /\ calls = 1 /\ args.seed # None
        /\ first.outcome = "tree") =>
        /\ Unnamed(tree) = Unnamed(first.tree)
        /\ obs.sim_calls = first.sim_calls
        /\ \A n \in 1 .. Len(tree) :
               tree[n].children # <<>> => tree[n].name = <<>>
        /\ first.args.labels = "None" => Unnamed(tree) = first.tree

\* The first call returned an unlabelled pruned tree after a failed attempt,
\* the second returns it with "bio" names.
C12_Witness ==
    /\ pc = "returned" /\ calls = 1 /\ args.seed # None
    /\ first.outcome = "tree" /\ first.args.labels = "None"
    /\ args.labels = "bio" /\ args.prune
    /\ tree # first.tree /\ Unnamed(tree) = first.tree

\* The names label_tree("bio") hands out: the binomials and the fallback
\* names "L0", "L1", ...
BioPool(species) ==
    Range(species) \cup {<<"L">> \o Decimal(i) : i \in 0 .. Len(species)}

\* C11: after label_tree every leaf carries a name of the model asked for;
\* under "bio" with repeated binomials every leaf carries a binomial or a
\* fallback name "L<i>", none is left with the name it had.
C11_NoLeafUnnamed ==
    pc = "labelled" =>
        \A n \in Range(GetLeaves(tree)) :
            /\ tree[n].name # <<>>
            /\ tree[n].name \notin Names
            /\ args.model = "bio" => tree[n].name \in BioPool(args.species)
            /\ args.model = "enum" => Head(tree[n].name) = "L"

\* Three leaves, one binomial drawn three times: two fallback names used.
C11_Witness ==
    /\ pc = "labelled" /\ args.model = "bio"
    /\ Cardinality(Range(args.species)) = 1
    /\ tree[4].name = args.species[1]
    /\ tree[5].name = <<"L", "0">>
    /\ tree[3].name = <<"L", "1">>

\* add_characters has ended, with or without an exception.
CharsEnded == pc \in {"chars", "raised"} /\ args.op = "add_characters"

\* C13: after add_characters(tree, C, ...) every node has a state vector of
\* length C, and every non-root node agrees with its parent at every index
\* where neither a mutation nor a transfer took place, whatever the branch
\* lengths of the tree.
C13_Inheritance ==
    CharsEnded =>
        \A n \in 1 .. Len(tree) :
            /\ Len(obs.chars[n]) = args.num_characters
            /\ tree[n].up # 0 =>
                   \A i \in (1 .. args.num_characters) \ obs.changed[n] :
                       obs.chars[n][i] = obs.chars[tree[n].up][i]

\* The same for the calls that return.
InheritanceWhenReturned ==
    (CharsEnded /\ pc = "chars") =>
        \A n \in 1 .. Len(tree) :
            /\ Len(obs.chars[n]) = args.num_characters
            /\ tree[n].up # 0 =>
                   \A i \in (1 .. args.num_characters) \ obs.changed[n] :
                       obs.chars[n][i] = obs.chars[tree[n].up][i]

\* C15: add_characters visits every non-root node after its parent,
\* whatever the branch lengths and the names of the nodes.
C15_ParentFirst ==
    CharsEnded =>
        \A j \in 1 .. Len(obs.order) :
            tree[obs.order[j]].up # 0 =>
                \E i \in 1 .. (j - 1) : obs.order[i] = tree[obs.order[j]].up

\* C14: the root, once visited, has the ids 0 .. C-1, and the ids the
\* mutations give out start at C and increase by one: none equals an id
\* given out before.
C14_FreshIds ==
    CharsEnded =>
        /\ 1 \in Range(obs.order) =>
               obs.chars[1] = [i \in 1 .. args.num_characters |-> i - 1]
        /\ \A j \in 1 .. Len(obs.ids) :
               obs.ids[j] = args.num_characters + j - 1
        /\ obs.states = args.num_characters + Len(obs.ids)

\* A call that returns after three mutations or more, one of them on the
\* node visited last.
C14_Witness ==
    /\ CharsEnded /\ pc = "chars"
    /\ Len(obs.ids) >= 3
    /\ \E i \in 1 .. args.num_characters :
           obs.chars[obs.order[Len(obs.order)]][i] = obs.ids[Len(obs.ids)]

\* A state of the generators unlike those the calls start from.
OtherRng == [py |-> [seed |-> 7, idx |-> 1], np |-> [seed |-> 7, idx |-> 3]]

NodesOf(t) == Range(PreorderBelow(t, 1))

\* C17: simulate_bad_sampling does not reseed: the generators are, at its
\* first draw, in the state the operation before left them in.
C17_NoReseeding ==
    pc = "sampled" => obs.rng0 = first.rng

\* C18: with a cutoff, simulate_bad_sampling draws once per leaf of the
\* tree it is given and removes the leaves whose draw is at or below the
\* cutoff, and nothing else: every inner node stays; without a cutoff the
\* tree is unchanged.
C18_OnlyLeavesRemoved ==
    pc = "sampled" =>
        IF args.cutoff = 0 THEN tree = first.tree /\ obs.draws = 0
        ELSE /\ obs.draws = Len(GetLeaves(first.tree))
             /\ \A i \in 1 .. Len(GetLeaves(first.tree)) :
                    (GetLeaves(first.tree)[i] \in NodesOf(tree))
                        <=> (NpPeek(obs.rng0, i - 1) > args.cutoff)
             /\ \A n \in NodesOf(first.tree) :
                    first.tree[n].children # <<>> => n \in NodesOf(tree)

\* The same without the inner nodes.
LeavesRemoved ==
    pc = "sampled" =>
        IF args.cutoff = 0 THEN tree = first.tree /\ obs.draws = 0
        ELSE /\ obs.draws = Len(GetLeaves(first.tree))
             /\ \A i \in 1 .. Len(GetLeaves(first.tree)) :
                    (GetLeaves(first.tree)[i] \in NodesOf(tree))
                        <=> (NpPeek(obs.rng0, i - 1) > args.cutoff)

\* C19: sorted_newick gives two strings of one tree, the children in
\* different orders, the same result, and gives its own result back when
\* applied to it.
C19_CanonicalForm ==
    pc = "sorted" => (obs.a = obs.b /\ obs.again = obs.a)

\* The same for the strings "((l1,l2):1,l3);" whose leaves have different
\* names and a length each: no two children of a node have the same key.
CanonicalWhenDistinct ==
    (pc = "sorted" /\ Len(args.a) = 7
        /\ \A i \in 1 .. 7 :
               /\ args.a[i].name # <<>> => args.a[i].length # ""
               /\ \A j \in 1 .. 7 :
                      (i # j /\ args.a[i].name # <<>>)
                          => args.a[i].name # args.a[j].name)
        => (obs.a = obs.b /\ obs.again = obs.a /\ obs.a # <<"TypeError">>)

\* The simulation time at which node n of the finished attempt ended: the
\* time of the event on it, or the time the loop stopped at (max_time when
\* the next event overshoots it).
EndTime(n) ==
    IF obs.died[n] # None THEN obs.died[n]
    ELSE IF stop = "overshoot" THEN args.max_time
    ELSE total_time

\* C20: in the tree an attempt's loop leaves, before pruning, the branch
\* length of every node is the simulation time from the event that created
\* the node (0 for the root) to the event that ended it, or to the stop of
\* the simulation when it is extant; either strategy.
C20_Lifetime ==
    (pc = "post" /\ tree # <<>>) =>
        \A n \in 1 .. Len(tree) : tree[n].dist = EndTime(n) - obs.born[n]

\* The same for the Amortized strategy alone.
LifetimeFast ==
    (pc = "post" /\ tree # <<>> /\ args.method = "fast") =>
        \A n \in 1 .. Len(tree) : tree[n].dist = EndTime(n) - obs.born[n]

\* C21: when the event time drawn by _gen_tree overshoots max_time, the
\* event is not applied (no node goes extinct, no child is created) and
\* every extant leaf is extended to the cap: it ends at root distance
\* max_time.
C21_OvershootExtends ==
    (pc = "post" /\ args.method = "standard" /\ stop = "overshoot") =>
        /\ obs.last_event = "none" /\ obs.n_after = obs.n_before
        /\ \A n \in Range(Extant(tree)) : GetDistance(tree, n) = args.max_time

\* The first half alone: the overshooting event is not applied.
OvershootNotApplied ==
    (pc = "post" /\ args.method = "standard" /\ stop = "overshoot") =>
        /\ obs.last_event = "none" /\ obs.n_after = obs.n_before
        /\ \A n \in 1 .. Len(tree) : obs.died[n] # total_time

\* C22: in _gen_tree_fast the list `leaves` holds, after every applied
\* event and without duplicates, exactly the extant leaves a traversal of
\* the tree finds; the emptiness test, the min_leaves test and the set
\* handed to prune are those of the traversal.
C22_LeavesListCurrent ==
    (pc \in {"sim", "post"} /\ args.method = "fast") =>
        IF tree = <<>> THEN leaves = <<>>
        ELSE /\ Range(leaves) = Range(Extant(tree))
             /\ Len(leaves) = Len(Extant(tree))
             /\ MinLeavesReached(args, Len(leaves))
                    = MinLeavesReached(args, Len(Extant(tree)))

\* After a death that followed births: three nodes or more in the list,
\* which is not in the order of the traversal.
C22_Witness ==
    /\ pc = "sim" /\ args.method = "fast"
    /\ obs.last_event = "death"
    /\ Len(leaves) >= 3
    /\ leaves # Extant(tree)

\* C24: a birth attaches 2 + Poisson(lam) children to the selected node, in
\* both strategies: before pruning every inner node has two children or
\* more, exactly two with lam = 0, and was itself set extinct.
C24_BirthArity ==
    (pc \in {"sim", "post"} /\ tree # <<>>) =>
        \A n \in 1 .. Len(tree) :
            tree[n].children # <<>> =>
                /\ Len(tree[n].children) >= 2
                /\ args.lam = 0 => Len(tree[n].children) = 2
                /\ tree[n].extinct

\* The Amortized strategy with lam > 0: a node with two children and a
\* node with more.
C24_Witness ==
    /\ pc = "post" /\ tree # <<>> /\ args.method = "fast" /\ args.lam > 0
    /\ \E n \in 1 .. Len(tree) : Len(tree[n].children) = 2
    /\ \E n \in 1 .. Len(tree) : Len(tree[n].children) > 2

\* The node the next iteration of the event loop selects (0: none, the
\* iteration stops on the time cap).
Selected ==
    (IF args.method = "fast"
     THEN FastIteration(args, tree, leaves, total_time, rng)
     ELSE StandardIteration(args, tree, total_time, rng)).node

\* C25: an iteration of the event loop selects an extant leaf only, and
\* leaves every extinct node as it was: same children, same flag, same
\* branch length, same time of death.  (On extinction the loop drops its
\* reference to the tree, `tree = None`: there is no tree to compare.)
C25_ExtinctFrozen ==
    [][(pc = "sim" /\ tree # <<>> /\ tree' # <<>> /\ tree' # tree) =>
          /\ Selected # 0 => Selected \in Range(Extant(tree))
          /\ \A n \in 1 .. Len(tree) :
                tree[n].extinct =>
                    /\ Selected # n
                    /\ n <= Len(tree')
                    /\ tree'[n] = tree[n]
                    /\ obs'.died[n] = obs.died[n]]_vars

\* An iteration that applies an event in a tree that has an extinct leaf
\* and an extinct inner node already.
C25_Witness ==
    /\ pc = "sim" /\ tree # <<>>
    /\ obs.last_event \in {"birth", "death"}
    /\ \E n \in 1 .. Len(tree) : tree[n].extinct /\ tree[n].children = <<>>
                                 /\ obs.died[n] < total_time
    /\ \E n \in 1 .. Len(tree) : tree[n].extinct /\ tree[n].children # <<>>
                                 /\ obs.died[n] < total_time

\* The nodes whose vector add_characters stored with the HGT step on.
Transferred ==
    IF pc \in {"chars", "raised"} /\ args.k_hgt # 0 /\ args.th_hgt # 0
    THEN {n \in 1 .. Len(tree) : obs.start[n] # NoRng}
    ELSE {}

\* C26: the HGT trigger of index i is a Gamma draw of shape
\* k_hgt / mut_exp^i and scale th_hgt compared with the node's branch
\* length, a draw of its own (the mutation draws of the node come first).
C26_HgtShape ==
    \A n \in Transferred :
        \A i \in 1 .. args.num_characters :
            (i \in obs.hgt[n]) <=>
                Gamma(NpPeek(obs.start[n], args.num_characters + i - 1),
                      args.k_hgt, args.th_hgt, args, i - 1) < tree[n].dist

\* What the code draws: the shape is k / mut_exp^i.
HgtShapeFromK ==
    \A n \in Transferred :
        \A i \in 1 .. args.num_characters :
            (i \in obs.hgt[n]) <=>
                Gamma(NpPeek(obs.start[n], args.num_characters + i - 1),
                      args.k, args.th_hgt, args, i - 1) < tree[n].dist

\* C27: where the mutation and the HGT of a node both trigger for an index,
\* the node ends with the donor's state, and the counter of states has
\* advanced by one for every mutation all the same.
C27_MutationThenHgt ==
    /\ \A n \in Transferred :
          \A i \in obs.mut[n] \cap obs.hgt[n] :
              obs.chars[n][i] = obs.chars[obs.donor[n][i]][i]
    /\ (pc = "chars" /\ Transferred # {}) =>
          obs.states = args.num_characters
                       + Cardinality({p \in (1 .. Len(tree)) \X (1 .. args.num_characters)
                                         : p[2] \in obs.mut[p[1]]})

\* Both trigger for an index of a node; the state the mutation gave out is
\* in no vector of that index.
C27_Witness ==
    /\ pc = "chars"
    /\ \E n \in Transferred :
       \E i \in obs.mut[n] \cap obs.hgt[n] :
          /\ obs.chars[n][i] < obs.states - 1
          /\ obs.states > args.num_characters

\* The nodes that built pot_source.
Pooled ==
    IF pc \in {"chars", "raised"} /\ args.k_hgt # 0 /\ args.th_hgt # 0
    THEN {n \in 1 .. Len(tree) : obs.pool[n] # {0}}
    ELSE {}

\* C28: the donor pool of a non-root node is the set of the nodes with a
\* strictly smaller root distance; the node is not in it, it is not empty,
\* and every donor has its state vector.
C28_DonorPool ==
    \A n \in Pooled :
        /\ obs.pool[n] = {d \in 1 .. Len(tree) :
                             GetDistance(tree, d) < GetDistance(tree, n)}
        /\ n \notin obs.pool[n]
        /\ obs.pool[n] # {}
        /\ \A d \in obs.pool[n] : obs.chars[d] # <<>>

\* The same without the pool being non-empty.
DonorPoolWhenAny ==
    \A n \in Pooled :
        /\ obs.pool[n] = {d \in 1 .. Len(tree) :
                             GetDistance(tree, d) < GetDistance(tree, n)}
        /\ n \notin obs.pool[n]
        /\ \A d \in obs.pool[n] : obs.chars[d] # <<>>

\* C30: with min_leaves 1 or 2, no max_time and lam = 0 every attempt ends
\* after its first event, extinct or with two extant leaves, and is
\* rejected: gen_tree does not return, it raises RuntimeError.  Without
\* max_time a returned tree has max(min_leaves, 3) extant leaves or more.
C30_SmallMinLeaves ==
    /\ (/\ pc \notin {"idle", "top"}
        /\ ValidArgs(args)
        /\ args.min_leaves \in {1, 2} /\ args.max_time = 0 /\ args.lam = 0) =>
          /\ pc # "returned"
          /\ pc = "raised" => outcome = "RuntimeError"
          /\ pc = "post" =>
                /\ Len(obs.born) <= 3
                /\ tree = <<>> \/ Len(Extant(tree)) = 2
                /\ tree = <<>> \/ Degenerate(tree)
    /\ (pc = "returned" /\ args.max_time = 0) =>
          /\ Len(Extant(tree)) >= args.min_leaves
          /\ Len(Extant(tree)) >= 3

\* gen_tree has raised RuntimeError with min_leaves 1 or 2 after an attempt
\* that went extinct and one that stopped with two extant leaves.
C30_Witness ==
    /\ pc = "raised" /\ outcome = "RuntimeError"
    /\ args.min_leaves \in {1, 2} /\ args.max_time = 0 /\ args.lam = 0
    /\ obs.had_degenerate /\ obs.had_extinct

\* The end of both loops on the same event.
PairEnded == pc = "pair" /\ stop # "" /\ stop = obs.fstop

\* C23: fed the same events, _gen_tree_fast ends with the tree _gen_tree
\* ends with: the same nodes, the same extinct flags and the same branch
\* length on every node.
C23_SameResult == PairEnded => obs.fast = tree

\* The topology and the extinct flags are the same.
SameShape ==
    PairEnded =>
        /\ Len(obs.fast) = Len(tree)
        /\ \A n \in 1 .. Len(tree) :
              /\ obs.fast[n].up = tree[n].up
              /\ obs.fast[n].children = tree[n].children
              /\ obs.fast[n].extinct = tree[n].extinct

\* While both loops run on the same events they hold the same extant leaves.
SameLeaves ==
    (pc = "pair" /\ stop = "" /\ obs.fstop = "") =>
        Range(leaves) = Range(Extant(tree))

\* The retry loop of gen_tree counts its attempts up to MAX_ATTEMPTS and
\* calls the simulator fewer times than that.
AttemptsBounded ==
    /\ cur_attempt <= MAX_ATTEMPTS
    /\ pc \notin {"idle"} /\ outcome # "ValueError" => obs.sim_calls < MAX_ATTEMPTS

====
